---- MODULE Spec2Model ----
(***************************************************************************)
(* Glob-style pattern engine of cpp-software-design:                       *)
(*   MatchingPatterns.cpp  - the matcher node set and the match driver     *)
(*   ParsingText.cpp       - the tokenizer and the recursive parser        *)
(*                                                                         *)
(* Characters are their ASCII codes, strings are sequences of codes.       *)
(* A size_t position is an integer; positions stay far below 2^64, so the  *)
(* only value of the top of the range that occurs is NOT_A_MATCH.          *)
(***************************************************************************)
EXTENDS Integers, Sequences, FiniteSets

\* ------------------------------------------------------------------ bounds
MaxTextLen == 3
MaxChain == 3
MaxAlts == 2
MaxPieces == 3
MaxWordLen == 2

\* -------------------------------------------------------------- characters
NUL == 0
TextChars == {97, 98}

\* All strings over cs of length at most n.
RECURSIVE StrsUpTo(_, _)
StrsUpTo(cs, n) ==
    IF n = 0 THEN {<<>>}
    ELSE LET shorter == StrsUpTo(cs, n - 1)
         IN  shorter \cup {Append(s, c) : s \in {x \in shorter : Len(x) = n - 1}, c \in cs}

Texts == StrsUpTo(TextChars, MaxTextLen)
\* Literal texts given to Lit.
LitStrs == {<<>>, <<97>>, <<98>>, <<97, 98>>}
\* Character sets given to Charset: strings of text characters, and the
\* one-character string holding the terminator.
SetStrs == {<<98, 97>>, <<NUL>>}
\* Bounds given to Range.
RangeBounds == {<<98, 98>>, <<NUL, 97>>}
\* Bytes that may lie behind a string's terminator: one of each class the
\* sets and ranges above tell apart.
MemBytes == {NUL, 1, 97, 98, 127}

\* ------------------------------------------------------------ matcher nodes
Null == [kind |-> "Null"]
Lit(chars, rest) == [kind |-> "Lit", chars |-> chars, rest |-> rest]
Any(rest) == [kind |-> "Any", rest |-> rest]
Either(left, right, rest) == [kind |-> "Either", left |-> left, right |-> right, rest |-> rest]
Choice(patterns, rest) == [kind |-> "Choice", patterns |-> patterns, rest |-> rest]
OnePlus(c, rest) == [kind |-> "OnePlus", c |-> c, rest |-> rest]
Charset(charset, rest) == [kind |-> "Charset", charset |-> charset, rest |-> rest]
Range(left, right, rest) == [kind |-> "Range", left |-> left, right |-> right, rest |-> rest]

\* SIZE_MAX, written as the size_t value -1.
NOT_A_MATCH == -1
\* Outcome of a call that left by std::out_of_range instead of returning.
THROWN == -2

\* text[i] on a const std::string: the character for i < size, the
\* terminator for i = size; beyond that the read is outside the string and
\* yields whatever byte lies there (mem[k] is the byte k places after the
\* terminator).
CharAt(text, i, mem) ==
    IF i < Len(text) THEN text[i + 1]
    ELSE IF i = Len(text) THEN NUL
    ELSE mem[i - Len(text)]

\* text.substr(start, n) for start <= size: clipped at the end of the text.
substr(text, start, n) ==
    LET last == IF start + n < Len(text) THEN start + n ELSE Len(text)
    IN  SubSeq(text, start + 1, last)

\* First candidate position of Any's loop (size_t i = 0).
AnyFirst(start) == 0

\* Any's loop condition i <= text.length(), negated.
AnyDoneMutStrict(i, text) == i >= Len(text)
AnyDone(i, text) == i > Len(text)

\* Lit's comparison text.substr(start, chars.length()) != chars.
LitDiffers(text, start, chars) == substr(text, start, Len(chars)) # chars

\* Lit's end = start + chars.length().
LitEndMutNoAdvance(start, chars) == start
LitEnd(start, chars) == start + Len(chars)

\* The alternatives Either::_match pushes into its local vector.
EitherPatternsMutLeftOnly(node) == <<node.left>>
EitherPatternsMutSwapped(node) == <<node.right, node.left>>
EitherPatterns(node) == <<node.left, node.right>>

\* The alternatives Choice::_match iterates over.
ChoicePatternsMutSkipLast(node) == SubSeq(node.patterns, 1, Len(node.patterns) - 1)
ChoicePatterns(node) == node.patterns

\* Position Charset hands to its continuation.
CharsetNextMutSame(start) == start
CharsetNext(start) == start + 1

\* Range's test text[start] >= left && text[start] <= right.
RangeHoldsMutExclusive(ch, left, right) == ch > left /\ ch < right
RangeHolds(ch, left, right) == ch >= left /\ ch <= right

RECURSIVE _match(_, _, _, _)
RECURSIVE AnyLoop(_, _, _, _)
RECURSIVE PatternsLoop(_, _, _, _, _, _)
RECURSIVE EitherLoop(_, _, _, _, _, _)
RECURSIVE OnePlusLoop(_, _, _, _)
RECURSIVE CharsetLoop(_, _, _, _, _)

\* OnePlus's else branch: break out of the loop.
OnePlusMismatchMutContinue(node, text, i, mem) == OnePlusLoop(node, text, i + 1, mem)
OnePlusMismatch(node, text, i, mem) == NOT_A_MATCH

\* Any::_match, the loop over i.
AnyLoop(node, text, i, mem) ==
    IF AnyDone(i, text) THEN NOT_A_MATCH
    ELSE LET end == _match(node.rest, text, i, mem)
         IN  IF end = THROWN THEN THROWN
             ELSE IF end = Len(text) THEN end
             ELSE AnyLoop(node, text, i + 1, mem)

\* Either::_match, the loop over its local vector patterns[k..].
EitherLoop(patterns, rest, text, start, k, mem) ==
    IF k > Len(patterns) THEN NOT_A_MATCH
    ELSE LET end == _match(patterns[k], text, start, mem)
         IN  IF end = THROWN THEN THROWN
             ELSE IF end # NOT_A_MATCH
             THEN LET end2 == _match(rest, text, end, mem)
                  IN  IF end2 = THROWN THEN THROWN
                      ELSE IF end2 = Len(text) THEN end2
                      ELSE EitherLoop(patterns, rest, text, start, k + 1, mem)
             ELSE EitherLoop(patterns, rest, text, start, k + 1, mem)

\* Choice::_match, the loop over this->patterns[k..].
PatternsLoop(patterns, rest, text, start, k, mem) ==
    IF k > Len(patterns) THEN NOT_A_MATCH
    ELSE LET end == _match(patterns[k], text, start, mem)
         IN  IF end = THROWN THEN THROWN
             ELSE IF end # NOT_A_MATCH
             THEN LET end2 == _match(rest, text, end, mem)
                  IN  IF end2 = THROWN THEN THROWN
                      ELSE IF end2 = Len(text) THEN end2
                      ELSE PatternsLoop(patterns, rest, text, start, k + 1, mem)
             ELSE PatternsLoop(patterns, rest, text, start, k + 1, mem)

\* OnePlus::_match, the loop over i.
OnePlusLoop(node, text, i, mem) ==
    IF i >= Len(text) THEN NOT_A_MATCH
    ELSE IF node.c = text[i + 1]
         THEN LET end == _match(node.rest, text, i + 1, mem)
              IN  IF end = THROWN THEN THROWN
                  ELSE IF end = Len(text) THEN end
                  ELSE OnePlusLoop(node, text, i + 1, mem)
         ELSE OnePlusMismatch(node, text, i, mem)

\* Charset::_match, the loop over the characters of the set.
CharsetLoop(node, text, start, k, mem) ==
    IF k > Len(node.charset) THEN NOT_A_MATCH
    ELSE IF CharAt(text, start, mem) = node.charset[k]
         THEN LET end == _match(node.rest, text, CharsetNext(start), mem)
              IN  IF end = THROWN THEN THROWN
                  ELSE IF end = Len(text) THEN end
                  ELSE CharsetLoop(node, text, start, k + 1, mem)
         ELSE CharsetLoop(node, text, start, k + 1, mem)

_match(node, text, start, mem) ==
    CASE node.kind = "Null" -> start
      [] node.kind = "Lit" ->
            IF start > Len(text) THEN THROWN
            ELSE IF LitDiffers(text, start, node.chars) THEN NOT_A_MATCH
            ELSE _match(node.rest, text, LitEnd(start, node.chars), mem)
      [] node.kind = "Any" -> AnyLoop(node, text, AnyFirst(start), mem)
      [] node.kind = "Either" ->
            EitherLoop(EitherPatterns(node), node.rest, text, start, 1, mem)
      [] node.kind = "Choice" ->
            PatternsLoop(ChoicePatterns(node), node.rest, text, start, 1, mem)
      [] node.kind = "OnePlus" -> OnePlusLoop(node, text, start, mem)
      [] node.kind = "Charset" -> CharsetLoop(node, text, start, 1, mem)
      [] node.kind = "Range" ->
            LET ch == CharAt(text, start, mem)
            IN  IF RangeHolds(ch, node.left, node.right)
                THEN _match(node.rest, text, start + 1, mem)
                ELSE NOT_A_MATCH

\* The invocations made while _match(node, text, start) runs: one record for
\* every call a node invoked at position from makes on an alternative or on
\* its continuation at position to.
Handoff(kind, from, to) == [by |-> kind, from |-> from, to |-> to]
RECURSIVE Handoffs(_, _, _, _)
RECURSIVE AnyHandoffs(_, _, _, _, _)
RECURSIVE PatternsHandoffs(_, _, _, _, _, _, _)
RECURSIVE OnePlusHandoffs(_, _, _, _, _)
RECURSIVE CharsetHandoffs(_, _, _, _, _)

AnyHandoffs(node, text, start, i, mem) ==
    IF AnyDone(i, text) THEN {}
    ELSE LET end == _match(node.rest, text, i, mem)
         IN  {Handoff("Any", start, i)} \cup Handoffs(node.rest, text, i, mem)
                \cup (IF end = THROWN \/ end = Len(text) THEN {}
                      ELSE AnyHandoffs(node, text, start, i + 1, mem))

PatternsHandoffs(kind, patterns, rest, text, start, k, mem) ==
    IF k > Len(patterns) THEN {}
    ELSE LET end == _match(patterns[k], text, start, mem)
             next == PatternsHandoffs(kind, patterns, rest, text, start, k + 1, mem)
         IN  {Handoff(kind, start, start)} \cup Handoffs(patterns[k], text, start, mem)
                \cup (IF end = THROWN THEN {}
                      ELSE IF end # NOT_A_MATCH
                      THEN LET end2 == _match(rest, text, end, mem)
                           IN  {Handoff(kind, start, end)} \cup Handoffs(rest, text, end, mem)
                                  \cup (IF end2 = THROWN \/ end2 = Len(text) THEN {} ELSE next)
                      ELSE next)

OnePlusHandoffs(node, text, start, i, mem) ==
    IF i >= Len(text) THEN {}
    ELSE IF node.c = text[i + 1]
         THEN LET end == _match(node.rest, text, i + 1, mem)
              IN  {Handoff("OnePlus", start, i + 1)} \cup Handoffs(node.rest, text, i + 1, mem)
                     \cup (IF end = THROWN \/ end = Len(text) THEN {}
                           ELSE OnePlusHandoffs(node, text, start, i + 1, mem))
         ELSE {}

CharsetHandoffs(node, text, start, k, mem) ==
    IF k > Len(node.charset) THEN {}
    ELSE IF CharAt(text, start, mem) = node.charset[k]
         THEN LET end == _match(node.rest, text, CharsetNext(start), mem)
              IN  {Handoff("Charset", start, CharsetNext(start))}
                     \cup Handoffs(node.rest, text, CharsetNext(start), mem)
                     \cup (IF end = THROWN \/ end = Len(text) THEN {}
                           ELSE CharsetHandoffs(node, text, start, k + 1, mem))
         ELSE CharsetHandoffs(node, text, start, k + 1, mem)

Handoffs(node, text, start, mem) ==
    CASE node.kind = "Null" -> {}
      [] node.kind = "Lit" ->
            IF start > Len(text) \/ LitDiffers(text, start, node.chars) THEN {}
            ELSE {Handoff("Lit", start, LitEnd(start, node.chars))}
                    \cup Handoffs(node.rest, text, LitEnd(start, node.chars), mem)
      [] node.kind = "Any" -> AnyHandoffs(node, text, start, AnyFirst(start), mem)
      [] node.kind = "Either" ->
            PatternsHandoffs("Either", EitherPatterns(node), node.rest, text, start, 1, mem)
      [] node.kind = "Choice" ->
            PatternsHandoffs("Choice", ChoicePatterns(node), node.rest, text, start, 1, mem)
      [] node.kind = "OnePlus" -> OnePlusHandoffs(node, text, start, start, mem)
      [] node.kind = "Charset" -> CharsetHandoffs(node, text, start, 1, mem)
      [] node.kind = "Range" ->
            IF RangeHolds(CharAt(text, start, mem), node.left, node.right)
            THEN {Handoff("Range", start, start + 1)}
                    \cup Handoffs(node.rest, text, start + 1, mem)
            ELSE {}

\* Match::match: the boolean it returns, given the value _match returned.
matchMutAnySuccess(result, text) == result # NOT_A_MATCH
match(result, text) == result = Len(text)

\* ---------------------------------------------------------------- tokenizer
Token(type, text) == [type |-> type, text |-> text]

\* add's test current.length() > 0.
HasPendingMutAlways(current) == TRUE
HasPending(current) == Len(current) > 0

\* Tokenizer::add on the tokenizer fields tk = [tokens, current].
add(tk, type) ==
    LET flushed == IF HasPending(tk.current)
                   THEN [tokens |-> Append(tk.tokens, Token("TT_Literal", tk.current)),
                         current |-> <<>>]
                   ELSE [tokens |-> tk.tokens, current |-> tk.current]
    IN  IF type # "TT_None"
        THEN [tokens |-> Append(flushed.tokens, Token(type, <<>>)), current |-> flushed.current]
        ELSE flushed

\* The test of the last else-if of Tokenizer::tokenize.
IsAlnum(ch) ==
    \/ (ch >= 65 /\ ch <= 90)
    \/ (ch >= 97 /\ ch <= 122)
    \/ (ch >= 48 /\ ch <= 57)

\* The token type of a delimiter character, TT_None for the comma.
DelimType(ch) ==
    CASE ch = 42 -> "TT_Any"
      [] ch = 123 -> "TT_EitherStart"
      [] ch = 125 -> "TT_EitherEnd"
      [] ch = 91 -> "TT_CharsetStart"
      [] ch = 93 -> "TT_CharsetEnd"
      [] ch = 44 -> "TT_None"

IsDelim(ch) == ch \in {42, 123, 125, 91, 93, 44}

\* The test ch == '\\' that sets escape_next.
IsEscapeMutNever(ch) == FALSE
IsEscape(ch) == ch = 92

\* The escape_next branch: current += ch.
EscapedMutFlush(tk, ch) ==
    [tokens |-> add(tk, "TT_None").tokens, current |-> <<ch>>]
Escaped(tk, ch) == [tokens |-> tk.tokens, current |-> Append(tk.current, ch)]

\* Tokenizer::tokenize from character i on (1-based), with the escape flag.
\* Yields the tokenizer fields as the call leaves them and whether it threw.
\* After the last character: add(TT_None) flushes the pending literal;
\* escape_next is not looked at again, so a backslash that ended the
\* pattern leaves nothing.
AtEndMutKeepBackslash(tk, escape_next) ==
    add(IF escape_next THEN Escaped(tk, 92) ELSE tk, "TT_None")
AtEnd(tk, escape_next) == add(tk, "TT_None")

RECURSIVE tokenizeLoop(_, _, _, _)
tokenizeLoop(tk, text, i, escape_next) ==
    IF i > Len(text)
    THEN LET done == AtEnd(tk, escape_next)
         IN  [tokens |-> done.tokens, current |-> done.current, thrown |-> FALSE]
    ELSE LET ch == text[i]
         IN  IF escape_next
             THEN tokenizeLoop(Escaped(tk, ch), text, i + 1, FALSE)
             ELSE IF IsEscape(ch) THEN tokenizeLoop(tk, text, i + 1, TRUE)
             ELSE IF IsDelim(ch) THEN tokenizeLoop(add(tk, DelimType(ch)), text, i + 1, FALSE)
             ELSE IF IsAlnum(ch)
             THEN tokenizeLoop([tokens |-> tk.tokens, current |-> Append(tk.current, ch)],
                               text, i + 1, FALSE)
             ELSE [tokens |-> tk.tokens, current |-> tk.current, thrown |-> TRUE]

tokenize(tk, text) == tokenizeLoop(tk, text, 1, FALSE)

\* ------------------------------------------------------------------- parser
\* A parse that threw or died instead of returning a tree.
Failed(what) == [kind |-> "Failed", what |-> what]

\* tokens[i]->type for a 0-based index i: the token's type inside the
\* vector; past its end the pointer read is garbage, and junk is what
\* dereferencing it gives ("SEGV" when the read faults).
TypeAt(tokens, i, junk) == IF i < Len(tokens) THEN tokens[i + 1].type ELSE junk
TextAt(tokens, i) == IF i < Len(tokens) THEN tokens[i + 1].text ELSE <<>>

\* A node around an already parsed continuation; a failure of the
\* continuation's parse propagates.
Wrap(node, rest) == IF rest.kind = "Failed" THEN rest ELSE [node EXCEPT !.rest = rest]

\* The guards tokens.size() - start < 3 and tokens.size() - start < 2.
EitherTooFew(size, start) == size - start < 3
CharsetTooFew(size, start) == size - start < 2

\* Index of the token _parse takes as an Either's right operand
\* (Token *right = tokens[start + 2]).
EitherRightMutLeft(start) == start + 1
EitherRight(start) == start + 2

\* Index of the token _parse takes as a Charset's characters
\* (Token *chars = tokens[start + 1]).
CharsetCharsMutStart(start) == start
CharsetChars(start) == start + 1

\* The end of _parse, reached by a token that opens nothing:
\* throw exception("invalid code path").
FallThroughMutNull == Null
FallThrough == Failed("invalid code path")

RECURSIVE _parse(_, _, _)
_parse(tokens, start, junk) ==
    IF start >= Len(tokens) THEN Null
    ELSE LET type == tokens[start + 1].type
         IN  CASE type = "TT_Any" -> Wrap(Any(Null), _parse(tokens, start + 1, junk))
               [] type = "TT_EitherStart" ->
                    IF EitherTooFew(Len(tokens), start)
                    THEN Failed("badly-formatted Either")
                    ELSE IF TypeAt(tokens, start + 1, junk) # "TT_Literal"
                            \/ TypeAt(tokens, EitherRight(start), junk) # "TT_Literal"
                    THEN Failed("badly-formatted Either")
                    ELSE IF TypeAt(tokens, start + 3, junk) = "SEGV" THEN Failed("SEGV")
                    ELSE IF TypeAt(tokens, start + 3, junk) # "TT_EitherEnd"
                    THEN Failed("badly-formatted Either")
                    ELSE Wrap(Either(Lit(TextAt(tokens, start + 1), Null),
                                     Lit(TextAt(tokens, EitherRight(start)), Null), Null),
                              _parse(tokens, start + 4, junk))
               [] type = "TT_CharsetStart" ->
                    IF CharsetTooFew(Len(tokens), start)
                    THEN Failed("badly-formatted Charset")
                    ELSE IF TypeAt(tokens, CharsetChars(start), junk) # "TT_Literal"
                    THEN Failed("badly-formatted Charset")
                    ELSE IF TypeAt(tokens, start + 2, junk) = "SEGV" THEN Failed("SEGV")
                    ELSE IF TypeAt(tokens, start + 2, junk) # "TT_CharsetEnd"
                    THEN Failed("badly-formatted Charset")
                    ELSE Wrap(Charset(TextAt(tokens, CharsetChars(start)), Null),
                              _parse(tokens, start + 3, junk))
               [] type = "TT_Literal" ->
                    Wrap(Lit(tokens[start + 1].text, Null), _parse(tokens, start + 1, junk))
               [] OTHER -> FallThrough

\* compare_match: structural equality of two trees, for the kinds the
\* parser produces; FALSE for two nodes of any other kind.
RECURSIVE compare_match(_, _)
compare_match(a, b) ==
    CASE a.kind = "Null" /\ b.kind = "Null" -> TRUE
      [] a.kind = "Lit" /\ b.kind = "Lit" ->
            a.chars = b.chars /\ compare_match(a.rest, b.rest)
      [] a.kind = "Any" /\ b.kind = "Any" -> compare_match(a.rest, b.rest)
      [] a.kind = "Either" /\ b.kind = "Either" ->
            /\ compare_match(a.left, b.left)
            /\ compare_match(a.right, b.right)
            /\ compare_match(a.rest, b.rest)
      [] a.kind = "Charset" /\ b.kind = "Charset" ->
            a.charset = b.charset /\ compare_match(a.rest, b.rest)
      [] OTHER -> FALSE

\* _parse reads the type of a token through a pointer it took at an index
\* at or behind tokens.size(): the size guards let start + 3 (Either) and
\* start + 2 (Charset) through when exactly that token is missing.
RECURSIVE DerefPastEnd(_, _)
DerefPastEnd(tokens, start) ==
    IF start >= Len(tokens) THEN FALSE
    ELSE LET type == tokens[start + 1].type
         IN  CASE type \in {"TT_Any", "TT_Literal"} -> DerefPastEnd(tokens, start + 1)
               [] type = "TT_EitherStart" ->
                    /\ ~EitherTooFew(Len(tokens), start)
                    /\ tokens[start + 2].type = "TT_Literal"
                    /\ tokens[start + 3].type = "TT_Literal"
                    /\ \/ start + 3 >= Len(tokens)
                       \/ /\ tokens[start + 4].type = "TT_EitherEnd"
                          /\ DerefPastEnd(tokens, start + 4)
               [] type = "TT_CharsetStart" ->
                    /\ ~CharsetTooFew(Len(tokens), start)
                    /\ tokens[start + 2].type = "TT_Literal"
                    /\ \/ start + 2 >= Len(tokens)
                       \/ /\ tokens[start + 3].type = "TT_CharsetEnd"
                          /\ DerefPastEnd(tokens, start + 3)
               [] OTHER -> FALSE

\* --------------------------------------------------------- bounded inputs
\* The nodes without alternatives, around a given continuation.
Simple(rest) ==
    {Lit(s, rest) : s \in LitStrs}
    \cup {Any(rest)}
    \cup {OnePlus(c, rest) : c \in {97}}
    \cup {Charset(cs, rest) : cs \in SetStrs}
    \cup {Range(b[1], b[2], rest) : b \in RangeBounds}

\* Continuation chains of at most n nodes, each ending in Null.
RECURSIVE Chains(_)
Chains(n) == IF n = 0 THEN {Null} ELSE {Null} \cup UNION {Simple(r) : r \in Chains(n - 1)}

\* Alternatives of an Either or a Choice, and lists of them.
Alts == Simple(Null)
RECURSIVE AltLists(_)
AltLists(n) ==
    IF n = 0 THEN {<<>>}
    ELSE LET shorter == AltLists(n - 1)
         IN  shorter \cup {Append(l, a) : l \in {x \in shorter : Len(x) = n - 1}, a \in Alts}

\* Trees whose root is an Either or a Choice.
AltTrees ==
    {Either(l, r, rest) : l \in Alts, r \in Alts, rest \in Chains(1)}
    \cup {Choice(ps, rest) : ps \in AltLists(MaxAlts), rest \in Chains(1)}

\* Pattern texts are given piece by piece: a piece is one character, or a
\* well-formed {a,b} or [ab] construct.
Pieces ==
    {<<97>>, <<42>>, <<123, 97, 44, 98, 125>>, <<91, 97, 98, 93>>,
     <<123>>, <<125>>, <<91>>, <<93>>, <<44>>, <<92>>, <<33>>}
RECURSIVE PieceSeqs(_)
PieceSeqs(n) ==
    IF n = 0 THEN {<<>>}
    ELSE LET shorter == PieceSeqs(n - 1)
         IN  shorter \cup {Append(s, p) : s \in {x \in shorter : Len(x) = n - 1}, p \in Pieces}
\* The pattern texts of at most n pieces, for every n a call can be given.
Patterns == [n \in 0..MaxPieces |-> PieceSeqs(n)]
RECURSIVE Flatten(_)
Flatten(ps) == IF ps = <<>> THEN <<>> ELSE Head(ps) \o Flatten(Tail(ps))

\* Well-formed constructs over alphanumeric words: a lower-case letter or
\* two, an upper-case letter and a digit.
WordChars == {97, 98, 90, 48}
Words == StrsUpTo(WordChars, MaxWordLen) \ {<<>>}
EitherText(a, b) == <<123>> \o a \o <<44>> \o b \o <<125>>
CharsetText(cs) == <<91>> \o cs \o <<93>>
Constructs ==
    {EitherText(a, b) : a \in Words, b \in Words} \cup {CharsetText(cs) : cs \in Words}

\* The values of enum TokenType.
TokenTypes ==
    {"TT_None", "TT_Literal", "TT_Any", "TT_EitherStart", "TT_EitherEnd",
     "TT_CharsetStart", "TT_CharsetEnd"}

\* What a read through a pointer taken past the end of the token vector
\* can give: some token type, or a fault.
Junk == {"TT_None", "TT_EitherEnd", "TT_CharsetEnd", "SEGV"}

\* The most Charset and Range nodes on one path through a tree: each of
\* them moves the position by one, whatever the text holds there.
Max2(a, b) == IF a >= b THEN a ELSE b
RECURSIVE SingleCharNodes(_)
RECURSIVE SingleCharNodesIn(_, _)
SingleCharNodesIn(ps, k) ==
    IF k > Len(ps) THEN 0 ELSE Max2(SingleCharNodes(ps[k]), SingleCharNodesIn(ps, k + 1))
SingleCharNodes(node) ==
    CASE node.kind = "Null" -> 0
      [] node.kind \in {"Charset", "Range"} -> 1 + SingleCharNodes(node.rest)
      [] node.kind = "Either" ->
            Max2(SingleCharNodes(node.left), SingleCharNodes(node.right))
                + SingleCharNodes(node.rest)
      [] node.kind = "Choice" ->
            SingleCharNodesIn(node.patterns, 1) + SingleCharNodes(node.rest)
      [] OTHER -> SingleCharNodes(node.rest)

\* The memory behind the text's terminator, as far as a tree can read it:
\* the first Charset or Range node on a path reads the text or its terminator.
Mems(node) == [1..(SingleCharNodes(node) - 1) -> MemBytes]

\* -------------------------------------------------------------------- state
VARIABLES
    tokens,     \* Tokenizer::tokens of the parser's tokenizer
    current,    \* Tokenizer::current
    fed,        \* pieces of pattern text given to the tokenizer so far
    calls,      \* tokenize and parse calls made so far: 0, 1, or 2 for more
    hasTree,    \* a tree is at hand (constructed directly or returned by parse)
    tree,       \* that tree
    pattern,    \* argument of the last tokenize or parse call
    text,       \* argument of the last match call on the tree at hand
    result,     \* what _match(text, 0) gave in that call
    ret,        \* what that call returned
    op,         \* the last operation: "new", "add", "tokenize", "parse", "match"
    outcome     \* how it ended: "returned", or the exception thrown

vars == <<tokens, current, fed, calls, hasTree, tree, pattern, text, result, ret, op, outcome>>

Fresh ==
    /\ tokens = <<>>
    /\ current = <<>>
    /\ fed = 0
    /\ calls = 0
    /\ pattern = <<>>
    /\ text = <<>>
    /\ result = 0
    /\ ret = FALSE
    /\ op = "new"
    /\ outcome = "returned"

\* A program that builds a chain of nodes through the construction API.
Init == Fresh /\ hasTree = TRUE /\ tree \in Chains(MaxChain)

\* A program that builds an alternation through the construction API.
InitAlts == Fresh /\ hasTree = TRUE /\ tree \in AltTrees

\* A program that starts with a fresh Parser or Tokenizer.
InitParser == Fresh /\ hasTree = FALSE /\ tree = Null

\* The program has not died of a fault.
Alive == outcome # "SEGV"

\* Tokenizer::add(type), the public helper called on its own, on the
\* parser's tokenizer: it counts as one piece fed.
Add(type) ==
    /\ Alive
    /\ fed + 1 <= MaxPieces
    /\ LET tk == add([tokens |-> tokens, current |-> current], type)
       IN  /\ tokens' = tk.tokens
           /\ current' = tk.current
    /\ outcome' = "returned"
    /\ fed' = fed + 1
    /\ calls' = IF calls = 0 THEN 1 ELSE 2
    /\ op' = "add"
    /\ text' = <<>>
    /\ result' = 0
    /\ ret' = FALSE
    /\ UNCHANGED <<hasTree, tree, pattern>>

\* Tokenizer::tokenize(Flatten(ps)) on the parser's tokenizer.
Tokenize(ps) ==
    /\ Alive
    /\ fed + Len(ps) <= MaxPieces
    /\ LET tk == tokenize([tokens |-> tokens, current |-> current], Flatten(ps))
       IN  /\ tokens' = tk.tokens
           /\ current' = tk.current
           /\ outcome' = IF tk.thrown THEN "invalid character" ELSE "returned"
    /\ fed' = fed + Len(ps)
    /\ calls' = IF calls = 0 THEN 1 ELSE 2
    /\ pattern' = Flatten(ps)
    /\ op' = "tokenize"
    /\ UNCHANGED <<hasTree, tree, text, result, ret>>

\* Parser::parse(Flatten(ps)).
Parse(ps) ==
    /\ Alive
    /\ fed + Len(ps) <= MaxPieces
    /\ LET tk == tokenize([tokens |-> tokens, current |-> current], Flatten(ps))
       IN  /\ tokens' = tk.tokens
           /\ current' = tk.current
           /\ IF tk.thrown
              THEN /\ outcome' = "invalid character"
                   /\ hasTree' = FALSE
                   /\ tree' = Null
              ELSE \E t \in {_parse(tk.tokens, 0, junk) : junk \in Junk} :
                      IF t.kind = "Failed"
                      THEN /\ outcome' = t.what
                           /\ hasTree' = FALSE
                           /\ tree' = Null
                      ELSE /\ outcome' = "returned"
                           /\ hasTree' = TRUE
                           /\ tree' = t
    /\ fed' = fed + Len(ps)
    /\ calls' = IF calls = 0 THEN 1 ELSE 2
    /\ pattern' = Flatten(ps)
    /\ op' = "parse"
    /\ text' = <<>>
    /\ result' = 0
    /\ ret' = FALSE

\* Match::match(t) on the tree at hand.
Match(t) ==
    /\ Alive
    /\ hasTree
    /\ \E r \in {_match(tree, t, 0, mem) : mem \in Mems(tree)} :
          IF r = THROWN
          THEN /\ outcome' = "out_of_range"
               /\ result' = THROWN
               /\ ret' = FALSE
          ELSE /\ outcome' = "returned"
               /\ result' = r
               /\ ret' = match(r, t)
    /\ text' = t
    /\ op' = "match"
    /\ UNCHANGED <<tokens, current, fed, calls, hasTree, tree, pattern>>

\* A tree is matched against one subject; the call may be repeated.
MatchSubject(t) == (op # "match" \/ t = text) /\ Match(t)

Next == \E t \in Texts : MatchSubject(t)

Spec == Init /\ [][Next]_vars

SpecAlts == InitAlts /\ [][Next]_vars

\* A program that uses a Parser: it parses patterns, matches the trees and
\* may call add on the parser's tokenizer.
\* Parse and Add read nothing a match call wrote and reset what it wrote,
\* so a parse or add call made after a match leads where the same call made
\* before the match leads; the calls are enumerated before the match only.
NextParser ==
    \/ op # "match" /\ \E ps \in Patterns[MaxPieces - fed] : Parse(ps)
    \/ op # "match" /\ \E type \in TokenTypes : Add(type)
    \/ \E t \in Texts : MatchSubject(t)

SpecParser == InitParser /\ [][NextParser]_vars

\* A program that gives a fresh Parser one well-formed construct and matches
\* the tree it gets.
NextConstruct ==
    \/ calls = 0 /\ \E c \in Constructs : Parse(<<c>>)
    \/ \E t \in Texts : MatchSubject(t)

SpecConstruct == InitParser /\ [][NextConstruct]_vars

\* A program that uses a Tokenizer on its own.
NextTokenizer ==
    \/ \E ps \in Patterns[MaxPieces - fed] : Tokenize(ps)
    \/ \E type \in TokenTypes : Add(type)

SpecTokenizer == InitParser /\ [][NextTokenizer]_vars

\* ------------------------------------------------------------------- claims
\* A match call on the tree at hand has just ended.
Matched == op = "match"
\* A Lit node with the default continuation.
IsLit(n) == n.kind = "Lit" /\ n.rest.kind = "Null"
StartsWith(t, p) == Len(t) >= Len(p) /\ SubSeq(t, 1, Len(p)) = p
InSet(ch, set) == \E k \in 1..Len(set) : set[k] = ch
EndsWith(t, z) == Len(t) >= Len(z) /\ SubSeq(t, Len(t) - Len(z) + 1, Len(t)) = z

\* C1: match returns true exactly when _match(text, 0) gave len(text); a
\* shorter position or NOT_A_MATCH gives false.
C1_WholeMatch ==
    (Matched /\ outcome = "returned") => (ret <=> result = Len(text))
\* A match call whose _match consumed a proper prefix only, and returned false.
C1_Witness ==
    Matched /\ outcome = "returned" /\ result # NOT_A_MATCH /\ result < Len(text) /\ ~ret

\* The pattern language read off the pattern text itself.  RunEnd(p, i) is
\* the index behind the run of alphanumerics that starts at index i.
RECURSIVE RunEnd(_, _)
RunEnd(p, i) == IF i <= Len(p) /\ IsAlnum(p[i]) THEN RunEnd(p, i + 1) ELSE i
IsAt(p, i, ch) == i <= Len(p) /\ p[i] = ch

\* p from index i on is built from literal runs, '*', '{a,b}' and '[set]'.
RECURSIVE WellFormed(_, _)
WellFormed(p, i) ==
    IF i > Len(p) THEN TRUE
    ELSE IF IsAlnum(p[i]) \/ p[i] = 42 THEN WellFormed(p, i + 1)
    ELSE IF p[i] = 123
    THEN LET ra == RunEnd(p, i + 1)
             rb == RunEnd(p, ra + 1)
         IN  /\ ra > i + 1 /\ IsAt(p, ra, 44)
             /\ rb > ra + 1 /\ IsAt(p, rb, 125)
             /\ WellFormed(p, rb + 1)
    ELSE IF p[i] = 91
    THEN LET rs == RunEnd(p, i + 1)
         IN  rs > i + 1 /\ IsAt(p, rs, 93) /\ WellFormed(p, rs + 1)
    ELSE FALSE

\* t holds the string y at position pos.
HasAt(t, pos, y) == pos + Len(y) <= Len(t) /\ SubSeq(t, pos + 1, pos + Len(y)) = y

\* The positions of t at which the pieces of p from index i on can end when
\* they start at pos: each piece takes its own string, one after the other.
RECURSIVE PieceEnds(_, _, _, _)
PieceEnds(p, i, t, pos) ==
    IF i > Len(p) THEN {pos}
    ELSE IF IsAlnum(p[i])
    THEN IF pos < Len(t) /\ t[pos + 1] = p[i] THEN PieceEnds(p, i + 1, t, pos + 1) ELSE {}
    ELSE IF p[i] = 42
    THEN UNION {PieceEnds(p, i + 1, t, k) : k \in pos..Len(t)}
    ELSE IF p[i] = 123
    THEN LET ra == RunEnd(p, i + 1)
             rb == RunEnd(p, ra + 1)
             a == SubSeq(p, i + 1, ra - 1)
             b == SubSeq(p, ra + 1, rb - 1)
         IN  UNION {PieceEnds(p, rb + 1, t, pos + Len(x)) :
                        x \in {y \in {a, b} : HasAt(t, pos, y)}}
    ELSE LET rs == RunEnd(p, i + 1)
         IN  IF pos < Len(t) /\ InSet(t[pos + 1], SubSeq(p, i + 1, rs - 1))
             THEN PieceEnds(p, rs + 1, t, pos + 1)
             ELSE {}

\* C2: for a pattern built from literal runs, '*', '{a,b}' and '[set]', the
\* tree a fresh parser returns matches t exactly when t is the concatenation,
\* in pattern order, of one string per piece; a piece after '*' does not
\* re-use characters the pieces before '*' consumed.
C2_PiecesConcatenate ==
    (Matched /\ calls = 1 /\ WellFormed(pattern, 1))
        => (outcome = "returned" /\ (ret <=> Len(text) \in PieceEnds(pattern, 1, text, 0)))

\* C3: Lit(p, Any(Lit(s))) matches t exactly when t = p + m + s for some m:
\* t starts with p, ends with s, and is at least len(p) + len(s) long.
C3_AnyInterior ==
    (Matched /\ tree.kind = "Lit" /\ tree.rest.kind = "Any" /\ IsLit(tree.rest.rest))
        => /\ outcome = "returned"
           /\ ret <=> /\ StartsWith(text, tree.chars)
                      /\ EndsWith(text, tree.rest.rest.chars)
                      /\ Len(text) >= Len(tree.chars) + Len(tree.rest.rest.chars)

\* C4: Lit(s) matches t exactly when t = s, the empty string included.
C4_LiteralExact ==
    (Matched /\ IsLit(tree)) => (outcome = "returned" /\ (ret <=> text = tree.chars))
\* Lit(s) with a non-empty s was matched against a proper extension of s.
C4_Witness ==
    /\ Matched /\ IsLit(tree) /\ tree.chars # <<>>
    /\ StartsWith(text, tree.chars) /\ Len(text) > Len(tree.chars)
    /\ ~ret

\* C5: Any() matches every text, the empty one included.
C5_AnyMatchesAll ==
    (Matched /\ tree.kind = "Any" /\ tree.rest.kind = "Null") => (outcome = "returned" /\ ret)
\* Any() was matched against the empty text.
C5_Witness ==
    Matched /\ tree.kind = "Any" /\ tree.rest.kind = "Null" /\ text = <<>> /\ ret

\* C6: Lit(p, Any()) matches t exactly when t starts with p, and Any(Lit(z))
\* matches t exactly when t ends with z.
C6_AnyPrefixSuffix ==
    /\ (Matched /\ tree.kind = "Lit" /\ tree.rest.kind = "Any" /\ tree.rest.rest.kind = "Null")
          => (outcome = "returned" /\ (ret <=> StartsWith(text, tree.chars)))
    /\ (Matched /\ tree.kind = "Any" /\ IsLit(tree.rest))
          => (outcome = "returned" /\ (ret <=> EndsWith(text, tree.rest.chars)))
\* Any(Lit(z)) with a non-empty z matched a text that is longer than z.
C6_Witness ==
    /\ Matched /\ tree.kind = "Any" /\ IsLit(tree.rest) /\ tree.rest.chars # <<>>
    /\ Len(text) > Len(tree.rest.chars)
    /\ ret

\* C7: Either(Lit(a), Lit(b)) matches t exactly when t = a or t = b, and
\* Either(Lit(a), Lit(b), Lit(c)) exactly when t = a + c or t = b + c.
C7_EitherLiterals ==
    /\ (Matched /\ tree.kind = "Either" /\ IsLit(tree.left) /\ IsLit(tree.right)
          /\ tree.rest.kind = "Null")
          => /\ outcome = "returned"
             /\ ret <=> (text = tree.left.chars \/ text = tree.right.chars)
    /\ (Matched /\ tree.kind = "Either" /\ IsLit(tree.left) /\ IsLit(tree.right)
          /\ IsLit(tree.rest))
          => /\ outcome = "returned"
             /\ ret <=> \/ text = tree.left.chars \o tree.rest.chars
                        \/ text = tree.right.chars \o tree.rest.chars
\* Either(Lit(a), Lit(b), Lit(c)) matched b + c, with a # b and c non-empty.
C7_Witness ==
    /\ Matched /\ tree.kind = "Either" /\ IsLit(tree.left) /\ IsLit(tree.right)
    /\ IsLit(tree.rest) /\ tree.rest.chars # <<>>
    /\ tree.left.chars # tree.right.chars
    /\ text = tree.right.chars \o tree.rest.chars
    /\ ret

\* C8: Choice(L) over literals matches t exactly when t is the text of an
\* element of L, Choice(L, Lit(c)) exactly when t is such a text followed by
\* c, and with an empty L nothing matches, whatever the continuation.
AllLit(ps) == \A k \in 1..Len(ps) : IsLit(ps[k])
C8_ChoiceLiterals ==
    /\ (Matched /\ tree.kind = "Choice" /\ AllLit(tree.patterns) /\ tree.rest.kind = "Null")
          => /\ outcome = "returned"
             /\ ret <=> \E k \in 1..Len(tree.patterns) : text = tree.patterns[k].chars
    /\ (Matched /\ tree.kind = "Choice" /\ AllLit(tree.patterns) /\ IsLit(tree.rest))
          => /\ outcome = "returned"
             /\ ret <=> \E k \in 1..Len(tree.patterns) :
                            text = tree.patterns[k].chars \o tree.rest.chars
    /\ (Matched /\ tree.kind = "Choice" /\ tree.patterns = <<>>)
          => (outcome = "returned" /\ ~ret)
\* Choice([Lit(a), Lit(b)], Lit(c)) matched b + c, with a # b and c non-empty.
C8_Witness ==
    /\ Matched /\ tree.kind = "Choice" /\ Len(tree.patterns) = 2 /\ AllLit(tree.patterns)
    /\ IsLit(tree.rest) /\ tree.rest.chars # <<>>
    /\ tree.patterns[1].chars # tree.patterns[2].chars
    /\ text = tree.patterns[2].chars \o tree.rest.chars
    /\ ret

\* C9: OnePlus(c) matches t exactly when t is one or more c; OnePlus(c, Lit(s))
\* exactly when t is one or more c followed by s; a run of no c never matches.
AllChar(t, c, n) == \A i \in 1..n : t[i] = c
C9_OnePlusRun ==
    /\ (Matched /\ tree.kind = "OnePlus" /\ tree.rest.kind = "Null")
          => /\ outcome = "returned"
             /\ ret <=> (Len(text) >= 1 /\ AllChar(text, tree.c, Len(text)))
    /\ (Matched /\ tree.kind = "OnePlus" /\ IsLit(tree.rest))
          => /\ outcome = "returned"
             /\ ret <=> \E n \in 1..Len(text) :
                            /\ AllChar(text, tree.c, n)
                            /\ SubSeq(text, n + 1, Len(text)) = tree.rest.chars
\* OnePlus(c, Lit(s)) with a non-empty s matched a run of two c followed by s.
C9_Witness ==
    /\ Matched /\ tree.kind = "OnePlus" /\ IsLit(tree.rest) /\ tree.rest.chars # <<>>
    /\ Len(text) = 2 + Len(tree.rest.chars) /\ AllChar(text, tree.c, 2)
    /\ ret

\* C10: Charset(S) matches t exactly when t is one character and that
\* character is in S; called where no character remains (start = len(text))
\* it gives NOT_A_MATCH, also when S holds the terminator.
C10_CharsetOneChar ==
    (Matched /\ tree.kind = "Charset" /\ tree.rest.kind = "Null")
        => /\ outcome = "returned"
           /\ ret <=> (Len(text) = 1 /\ InSet(text[1], tree.charset))
           /\ \A mem \in Mems(tree) : _match(tree, text, Len(text), mem) = NOT_A_MATCH
\* Charset(S) with the terminator in S was matched against the empty text.
C10_Witness ==
    /\ Matched /\ tree.kind = "Charset" /\ tree.rest.kind = "Null"
    /\ InSet(NUL, tree.charset) /\ text = <<>>
    /\ ~ret

\* C11: Range(low, high) matches t exactly when t is one character c with
\* low <= c <= high, both bounds included.
C11_RangeOneChar ==
    (Matched /\ tree.kind = "Range" /\ tree.rest.kind = "Null")
        => /\ outcome = "returned"
           /\ ret <=> (Len(text) = 1 /\ tree.left <= text[1] /\ text[1] <= tree.right)
\* Range(low, high) matched the one-character text holding high.
C11_Witness ==
    /\ Matched /\ tree.kind = "Range" /\ tree.rest.kind = "Null"
    /\ text = <<tree.right>>
    /\ ret

\* What a tokenizer that was just constructed makes of the pattern p.
FreshTokenize(p) == tokenize([tokens |-> <<>>, current |-> <<>>], p)

\* C12: a call on a used Tokenizer or Parser gives what a fresh object gives
\* for the same pattern: the same failure or the same token sequence, and for
\* parse the same tree or the same error, whatever the calls before did.
C12_NoStateAcrossCalls ==
    (op \in {"tokenize", "parse"} /\ calls = 2 /\ Alive)
        => LET fresh == FreshTokenize(pattern)
           IN  /\ (outcome = "invalid character") <=> fresh.thrown
               /\ ~fresh.thrown => tokens = fresh.tokens
               /\ (op = "parse" /\ ~fresh.thrown)
                     => \E t \in {_parse(fresh.tokens, 0, junk) : junk \in Junk} :
                           IF t.kind = "Failed"
                           THEN ~hasTree /\ outcome = t.what
                           ELSE hasTree /\ tree = t /\ outcome = "returned"

\* The errors Parser::_parse throws.
MalformedPattern == {"badly-formatted Either", "badly-formatted Charset", "invalid code path"}
\* The first call on a fresh Parser has ended and its tokenizer did not throw.
FirstParsed == op = "parse" /\ calls = 1 /\ outcome # "invalid character"
\* Some EitherStart is followed by fewer than three tokens, or some
\* CharsetStart by fewer than two.
Exhausted(toks) ==
    \E i \in 1..Len(toks) :
        \/ toks[i].type = "TT_EitherStart" /\ Len(toks) - i < 3
        \/ toks[i].type = "TT_CharsetStart" /\ Len(toks) - i < 2

\* C13: when the tokens run out inside a construct, parse throws the
\* malformed-pattern error and reads no token at or behind the end of the
\* token sequence.
C13_ExhaustionReported ==
    (FirstParsed /\ Exhausted(tokens))
        => (outcome \in MalformedPattern /\ ~DerefPastEnd(tokens, 0))

\* The type of the k-th token behind index i, "none" where the tokens end.
TypeBehind(toks, i, k) == IF i + k <= Len(toks) THEN toks[i + k].type ELSE "none"
\* Some EitherStart is not followed by exactly Literal, Literal, EitherEnd,
\* or some CharsetStart not by exactly Literal, CharsetEnd.
ShapeBroken(toks) ==
    \E i \in 1..Len(toks) :
        \/ /\ toks[i].type = "TT_EitherStart"
           /\ <<TypeBehind(toks, i, 1), TypeBehind(toks, i, 2), TypeBehind(toks, i, 3)>>
                 # <<"TT_Literal", "TT_Literal", "TT_EitherEnd">>
        \/ /\ toks[i].type = "TT_CharsetStart"
           /\ <<TypeBehind(toks, i, 1), TypeBehind(toks, i, 2)>>
                 # <<"TT_Literal", "TT_CharsetEnd">>

\* C14: when the tokens behind an EitherStart or a CharsetStart do not have
\* the exact shape of the construct, parse throws the malformed-pattern error
\* and returns no tree.
C14_ShapeEnforced ==
    (FirstParsed /\ ShapeBroken(tokens)) => (outcome \in MalformedPattern /\ ~hasTree)

\* C15: a fresh parser turns "{a,b}", for non-empty alphanumeric a and b,
\* into the tree Either(Lit(a), Lit(b)) with Null continuations throughout.
C15_EitherRoundTrip ==
    \A a \in Words, b \in Words :
        (op = "parse" /\ calls = 1 /\ pattern = EitherText(a, b))
            => /\ outcome = "returned" /\ hasTree
               /\ tree = Either(Lit(a, Null), Lit(b, Null), Null)
               /\ compare_match(tree, Either(Lit(a, Null), Lit(b, Null), Null))
\* A fresh parser has parsed "{a,b}" with two different two-character words.
C15_Witness ==
    /\ op = "parse" /\ calls = 1 /\ hasTree /\ tree.kind = "Either"
    /\ Len(tree.left.chars) = 2 /\ Len(tree.right.chars) = 2
    /\ tree.left.chars # tree.right.chars
    /\ pattern = EitherText(tree.left.chars, tree.right.chars)

\* C16: a fresh parser turns "[s]", for a non-empty alphanumeric s, into the
\* tree Charset(s) with the Null continuation; the set keeps the order of s.
C16_CharsetRoundTrip ==
    \A cs \in Words :
        (op = "parse" /\ calls = 1 /\ pattern = CharsetText(cs))
            => /\ outcome = "returned" /\ hasTree
               /\ tree = Charset(cs, Null)
               /\ compare_match(tree, Charset(cs, Null))
\* A fresh parser has parsed "[ba]": a set that is not in ascending order.
C16_Witness ==
    /\ op = "parse" /\ calls = 1 /\ hasTree /\ tree.kind = "Charset"
    /\ tree.charset = <<98, 97>> /\ pattern = CharsetText(<<98, 97>>)

\* The first call on a fresh Tokenizer has ended.
FirstTokenized == op = "tokenize" /\ calls = 1

\* The pattern with its escapes resolved: each unescaped backslash is dropped
\* and the character behind it is marked as literal text; an alphanumeric
\* is literal text as well.  A backslash with nothing behind it vanishes.
RECURSIVE Mark(_, _)
Mark(p, i) ==
    IF i > Len(p) THEN <<>>
    ELSE IF p[i] = 92
    THEN IF i + 1 <= Len(p)
         THEN <<[lit |-> TRUE, ch |-> p[i + 1]]>> \o Mark(p, i + 2)
         ELSE <<>>
    ELSE <<[lit |-> IsAlnum(p[i]), ch |-> p[i]]>> \o Mark(p, i + 1)

\* The index behind the run of literal text that starts at index i.
RECURSIVE LitRunEnd(_, _)
LitRunEnd(m, i) == IF i <= Len(m) /\ m[i].lit THEN LitRunEnd(m, i + 1) ELSE i

\* The tokens of a marked pattern: one Literal per maximal run of literal
\* text, one token per delimiter, none for a comma.
RECURSIVE Group(_, _)
Group(m, i) ==
    IF i > Len(m) THEN <<>>
    ELSE IF m[i].lit
    THEN LET e == LitRunEnd(m, i)
         IN  <<Token("TT_Literal", [k \in 1..(e - i) |-> m[i + k - 1].ch])>> \o Group(m, e)
    ELSE IF m[i].ch = 44 THEN Group(m, i + 1)
    ELSE <<Token(DelimType(m[i].ch), <<>>)>> \o Group(m, i + 1)

\* Index i of p holds a character that an unescaped backslash precedes.
RECURSIVE IsEscaped(_, _)
IsEscaped(p, i) == i > 1 /\ p[i - 1] = 92 /\ ~IsEscaped(p, i - 1)
HasEscape(p) == \E i \in 1..Len(p) : IsEscaped(p, i)
\* p holds, unescaped, a character that is neither alphanumeric nor one of
\* * { } [ ] , and the backslash.
HasInvalid(p) ==
    \E i \in 1..Len(p) :
        ~IsEscaped(p, i) /\ ~IsAlnum(p[i]) /\ p[i] \notin {42, 123, 125, 91, 93, 44, 92}

\* C17: an unescaped backslash is dropped and the character behind it joins
\* the literal text around it, whatever it is: it flushes nothing and gives no
\* delimiter token, so the tokens are those of the pattern with its escapes
\* resolved.
C17_EscapeVerbatim ==
    (FirstTokenized /\ outcome = "returned" /\ HasEscape(pattern))
        => (tokens = Group(Mark(pattern, 1), 1) /\ current = <<>>)
\* An alphanumeric and an escaped delimiter next to it gave one Literal token.
C17_Witness ==
    /\ FirstTokenized /\ outcome = "returned" /\ Len(pattern) = 3
    /\ Len(tokens) = 1 /\ tokens[1].type = "TT_Literal" /\ Len(tokens[1].text) = 2
    /\ \E k \in 1..2 : IsDelim(tokens[1].text[k])
    /\ \E k \in 1..2 : IsAlnum(tokens[1].text[k])

\* The reference scan of a pattern without escapes, from index i on with the
\* literal buffer buf: a delimiter flushes a non-empty buffer and then gives
\* its own token, a comma only flushes, an alphanumeric joins the buffer, and
\* the end of the pattern flushes what is pending.
Flush(buf) == IF buf = <<>> THEN <<>> ELSE <<Token("TT_Literal", buf)>>
RECURSIVE RefScan(_, _, _)
RefScan(p, i, buf) ==
    IF i > Len(p) THEN Flush(buf)
    ELSE IF p[i] = 44 THEN Flush(buf) \o RefScan(p, i + 1, <<>>)
    ELSE IF IsDelim(p[i])
    THEN Flush(buf) \o <<Token(DelimType(p[i]), <<>>)>> \o RefScan(p, i + 1, <<>>)
    ELSE RefScan(p, i + 1, Append(buf, p[i]))
NoBackslash(p) == \A i \in 1..Len(p) : p[i] # 92

\* C18: for a pattern without escapes and without invalid characters a fresh
\* tokenizer gives exactly the reference scan, in pattern order; no Literal
\* token is empty and the empty pattern gives no token.
C18_ReferenceScan ==
    (FirstTokenized /\ NoBackslash(pattern) /\ ~HasInvalid(pattern))
        => /\ outcome = "returned"
           /\ tokens = RefScan(pattern, 1, <<>>)
           /\ current = <<>>
           /\ \A k \in 1..Len(tokens) : tokens[k].type = "TT_Literal" => tokens[k].text # <<>>
           /\ pattern = <<>> => tokens = <<>>
\* A fresh tokenizer scanned two delimiters in a row and a literal at the end
\* of the pattern: nothing to flush between the delimiters, the end flushes.
C18_Witness ==
    /\ FirstTokenized /\ outcome = "returned" /\ Len(pattern) = 3
    /\ IsDelim(pattern[1]) /\ IsDelim(pattern[2]) /\ pattern[1] # 44 /\ pattern[2] # 44
    /\ IsAlnum(pattern[3])
    /\ Len(tokens) = 3 /\ tokens[3] = Token("TT_Literal", <<pattern[3]>>)

\* C19: tokenize throws the invalid-character error exactly when the pattern
\* holds, unescaped, a character that is neither alphanumeric nor one of
\* * { } [ ] , and the backslash; an escaped character never raises it.
C19_InvalidCharacter ==
    (op = "tokenize") => ((outcome = "invalid character") <=> HasInvalid(pattern))
\* An escaped '!' was accepted.
C19_Witness ==
    /\ op = "tokenize" /\ outcome = "returned"
    /\ \E i \in 1..Len(pattern) : pattern[i] = 33 /\ IsEscaped(pattern, i)

\* C20: when a fresh tokenizer throws the invalid-character error, its token
\* sequence and its literal buffer hold nothing made from the characters
\* before the invalid one.
C20_NoPartialTokens ==
    (FirstTokenized /\ outcome = "invalid character") => (tokens = <<>> /\ current = <<>>)

\* C21: match calls on the same tree with the same subject return the same
\* result, and no match call changes the tree; in particular a call repeated
\* right after itself ends as the call before it did.
C21_Idempotent ==
    [][(op = "match" /\ op' = "match" /\ text' = text)
          => (outcome' = outcome /\ ret' = ret /\ tree' = tree)]_vars

\* What an Any node gives when it tries its continuation at the positions
\* i, i + 1, ..., len(text) in this order: len(text) as soon as the
\* continuation gives len(text), NOT_A_MATCH when none does.
RECURSIVE AnyFrom(_, _, _, _)
AnyFrom(rest, t, i, mem) ==
    IF i > Len(t) THEN NOT_A_MATCH
    ELSE LET end == _match(rest, t, i, mem)
         IN  IF end = THROWN THEN THROWN
             ELSE IF end = Len(t) THEN end
             ELSE AnyFrom(rest, t, i + 1, mem)

\* C22: an Any node invoked at start tries its continuation at the positions
\* start..len(text) only, in ascending order, and gives len(text) exactly when
\* the continuation gives len(text) from one of them.  Seen on Lit(p, Any(r))
\* with a text that starts with p, where the Any node is invoked at len(p)
\* and its value is the value of the whole tree.
C22_AnyCandidates ==
    (Matched /\ tree.kind = "Lit" /\ tree.rest.kind = "Any" /\ StartsWith(text, tree.chars))
        => result \in {AnyFrom(tree.rest.rest, text, Len(tree.chars), mem) : mem \in Mems(tree)}

\* C23: during a match no node hands its continuation or an alternative a
\* position before the one it was invoked at.
C23_PositionsMonotone ==
    Matched => \A mem \in Mems(tree) :
                  \A h \in Handoffs(tree, text, 0, mem) : h.from <= h.to

\* C24: a Range node invoked where no character remains (start = len(text))
\* gives NOT_A_MATCH and does not invoke its continuation, also when its
\* bounds enclose the terminator.
C24_RangeNeedsChar ==
    Matched =>
        /\ (tree.kind = "Range" /\ text = <<>>) => result = NOT_A_MATCH
        /\ \A mem \in Mems(tree) :
              \A h \in Handoffs(tree, text, 0, mem) :
                  ~(h.by = "Range" /\ h.from = Len(text))

\* C25: no Lit node raises an error, at whatever position it is invoked: a
\* match call always returns, and the value the root's _match gave is
\* NOT_A_MATCH or a position of the text, 0..len(text).
C25_LitNeverThrows ==
    Matched => /\ outcome = "returned"
               /\ result = NOT_A_MATCH \/ result \in 0..Len(text)

\* C26: Either(l, r, rest) gives, for every text and every start position,
\* the value Choice([l, r], rest) gives, l being tried before r.
C26_EitherIsChoice ==
    (Matched /\ tree.kind = "Either")
        => LET choice == Choice(<<tree.left, tree.right>>, tree.rest)
           IN  /\ \A start \in 0..Len(text) : \A mem \in Mems(tree) :
                     _match(tree, text, start, mem) = _match(choice, text, start, mem)
               /\ result \in {_match(choice, text, 0, mem) : mem \in Mems(tree)}
\* An Either whose first alternative fails matched through its second one.
C26_Witness ==
    /\ Matched /\ tree.kind = "Either" /\ tree.left # tree.right
    /\ \A mem \in Mems(tree) : _match(tree.left, text, 0, mem) = NOT_A_MATCH
    /\ ret

\* A node on its own matches all of the text u.
MatchesAlone(node, u) == match(_match(node, u, 0, <<>>), u)
\* The alternatives of an Either or a Choice, as a list.
Alternatives(node) ==
    IF node.kind = "Either" THEN <<node.left, node.right>> ELSE node.patterns
\* The text splits as u + v, some alternative matches all of u and the
\* continuation matches all of v.
Splits(node, t) ==
    \E k \in 1..Len(Alternatives(node)) : \E n \in 0..Len(t) :
        /\ MatchesAlone(Alternatives(node)[k], SubSeq(t, 1, n))
        /\ MatchesAlone(node.rest, SubSeq(t, n + 1, Len(t)))

\* C27: an Either or a Choice with alternatives of any kind matches a text
\* exactly when the text splits as u + v such that one alternative alone
\* matches all of u and the continuation alone matches all of v.
C27_AlternationComposes ==
    (Matched /\ tree.kind \in {"Either", "Choice"})
        => (outcome = "returned" /\ (ret <=> Splits(tree, text)))

\* A tree of Null, Lit, Any, Either and Charset nodes only, in which every
\* Either has two Lit children that end in Null and every continuation chain
\* ends in Null.
RECURSIVE ParserShaped(_)
ParserShaped(t) ==
    CASE t.kind = "Null" -> TRUE
      [] t.kind \in {"Lit", "Any", "Charset"} -> ParserShaped(t.rest)
      [] t.kind = "Either" -> IsLit(t.left) /\ IsLit(t.right) /\ ParserShaped(t.rest)
      [] OTHER -> FALSE

\* C28: a tree returned by parse holds Null, Lit, Any, Either and Charset
\* nodes only, every Either has two Lit children ending in Null, every chain
\* of continuations ends in Null; a leading EitherEnd or CharsetEnd token
\* makes parse throw and return no tree.
C28_ParserTreeShape ==
    /\ (op = "parse" /\ hasTree) => ParserShaped(tree)
    /\ (op = "parse" /\ tokens # <<>> /\ tokens[1].type \in {"TT_EitherEnd", "TT_CharsetEnd"})
          => (~hasTree /\ outcome # "returned")
\* parse returned Any over Either over Charset.
C28_Witness ==
    /\ op = "parse" /\ hasTree
    /\ tree.kind = "Any" /\ tree.rest.kind = "Either" /\ tree.rest.rest.kind = "Charset"
    /\ tree.rest.rest.rest.kind = "Null"

\* p ends in a backslash that no backslash before it escapes.
EndsInEscape(p) == p # <<>> /\ p[Len(p)] = 92 /\ ~IsEscaped(p, Len(p))

\* C29: a pattern ending in an unescaped backslash is accepted and the
\* backslash is dropped: on a fresh tokenizer it fails exactly when the
\* pattern without that backslash fails, and otherwise gives exactly that
\* pattern's tokens, with nothing left pending.
C29_TrailingBackslash ==
    (FirstTokenized /\ EndsInEscape(pattern))
        => LET shorter == FreshTokenize(SubSeq(pattern, 1, Len(pattern) - 1))
           IN  /\ (outcome = "invalid character") <=> shorter.thrown
               /\ ~shorter.thrown => (tokens = shorter.tokens /\ current = <<>>)
\* A literal and a star before the trailing backslash gave two tokens.
C29_Witness ==
    /\ FirstTokenized /\ EndsInEscape(pattern) /\ outcome = "returned"
    /\ Len(pattern) = 3 /\ Len(tokens) = 2
    /\ tokens[1].type = "TT_Literal" /\ tokens[2].type = "TT_Any"

\* C30: every call finishes: tokenize and parse end by returning or by
\* throwing one of their errors, never in a fault, and match ends by
\* returning true or false, the value of one finished _match call.
C30_Terminates ==
    /\ Alive
    /\ op \in {"tokenize", "parse"}
          => outcome \in {"returned", "invalid character"} \cup MalformedPattern
    /\ Matched => (outcome = "returned" /\ ret \in BOOLEAN /\ result # THROWN)

====
